---------------------------- MODULE Spec2Model ----------------------------
(***************************************************************************)
(* A model of fourrier-rs: the sample decoder (audio::load_audio), the     *)
(* spectral analyzer (audio::compute_spectrogram) and the recognition      *)
(* path's loader (speech::load_audio_for_whisper: decode, peak             *)
(* normalization, nearest-index resampling to 16 kHz), and the terminal    *)
(* session of visualization::Visualizer::run.                              *)
(*                                                                         *)
(* Single-precision values.  An f32 is modelled by the pair <<m, e>> that  *)
(* stands for m * 2^e, kept canonical (m odd, or <<0, 0>> for zero), so    *)
(* that two f32 values are equal exactly when their pairs are.  Every      *)
(* arithmetic operator below rounds to a 24-bit significand, to nearest,   *)
(* ties to even, as the hardware does.  Infinities and NaN are the pairs   *)
(* with exponent InfExp.  Not modelled: the sign of zero, and the limits   *)
(* of the exponent range (no value of the model comes near 2^127 or        *)
(* 2^-126).                                                                *)
(***************************************************************************)
EXTENDS Integers, Sequences, FiniteSets, TLC

(***************************************************************************)
(* f32: the format                                                         *)
(***************************************************************************)
MantBits == 24
InfExp   == 128

Pow2(k) == IF k <= 0 THEN 1 ELSE 2 ^ k

\* The number of bits of n (0 < n < 2^31): 2^(b-1) <= n < 2^b.
BitLen(n) ==
    IF n <= 0 THEN 0
    ELSE CHOOSE b \in 1..31 : n >= Pow2(b - 1) /\ (b = 31 \/ n < Pow2(b))

AbsInt(n) == IF n < 0 THEN -n ELSE n
SignInt(n) == IF n < 0 THEN -1 ELSE IF n = 0 THEN 0 ELSE 1

\* The number of zero bits at the low end of m (m # 0, below 2^31 in size).
TrailingZeros(m) ==
    CHOOSE k \in 0..30 : m % Pow2(k) = 0 /\ (k = 30 \/ m % Pow2(k + 1) # 0)

Canon(m, e) == IF m = 0 THEN <<0, 0>>
               ELSE <<m \div Pow2(TrailingZeros(m)), e + TrailingZeros(m)>>

F32Zero == <<0, 0>>
F32One  == <<1, 0>>
PosInf  == <<1, InfExp>>
NegInf  == <<-1, InfExp>>
NaN     == <<0, InfExp>>

IsNaN(a)    == a = NaN
IsInf(a)    == a = PosInf \/ a = NegInf
IsFinite(a) == a[2] # InfExp
IsZero(a)   == a = F32Zero
F32Sign(a)  == SignInt(a[1])

\* n * 2^e (n >= 0, below 2^31; sticky = 1 when nonzero bits were already cut
\* off below n, in which case n holds at least two bits more than the
\* significand) rounded to MantBits bits, to nearest, ties to even.
RoundNE(n, e, sticky) ==
    LET L == BitLen(n)
    IN  IF L <= MantBits THEN Canon(n, e)
        ELSE LET shift == L - MantBits
                 q     == n \div Pow2(shift)
                 r     == n % Pow2(shift)
                 half  == Pow2(shift - 1)
                 up    == \/ r > half
                          \/ r = half /\ sticky = 1
                          \/ r = half /\ sticky = 0 /\ q % 2 = 1
             IN  Canon(IF up THEN q + 1 ELSE q, e + shift)

Signed(s, a) == IF s < 0 THEN <<-a[1], a[2]>> ELSE a

\* `n as f32` for an integer n (usize, u32, i32, ...).
F32FromInt(n) == Signed(n, RoundNE(AbsInt(n), 0, 0))

F32Neg(a) == IF IsNaN(a) THEN NaN ELSE <<-a[1], a[2]>>
F32Abs(a) == IF IsNaN(a) THEN NaN ELSE <<AbsInt(a[1]), a[2]>>

\* The position of the leading bit of a finite nonzero value.
Top(a) == a[2] + BitLen(AbsInt(a[1]))

(***************************************************************************)
(* f32: division.  Long division, up to six quotient bits at a time (no    *)
(* intermediate value reaches 2^31), until the quotient is exact or holds  *)
(* 26 or 27 bits; a remainder left over is the sticky bit.                 *)
(***************************************************************************)
RECURSIVE DivLoop(_, _, _, _)
DivLoop(q, rem, d, e) ==
    IF rem = 0 THEN <<q, e, 0>>
    ELSE IF q >= Pow2(MantBits + 1) THEN <<q, e, 1>>
    ELSE LET room == MantBits + 3 - BitLen(q)
             s    == IF room < 6 THEN room ELSE 6
             r2   == rem * Pow2(s)
         IN  DivLoop(q * Pow2(s) + r2 \div d, r2 % d, d, e - s)

F32Div(a, b) ==
    LET s == F32Sign(a) * F32Sign(b)
    IN  IF IsNaN(a) \/ IsNaN(b) THEN NaN
        ELSE IF IsInf(a) THEN (IF IsInf(b) THEN NaN
                               ELSE IF s < 0 \/ (IsZero(b) /\ F32Sign(a) < 0)
                                    THEN NegInf ELSE PosInf)
        ELSE IF IsInf(b) THEN F32Zero
        ELSE IF IsZero(b) THEN (IF IsZero(a) THEN NaN
                                ELSE IF F32Sign(a) < 0 THEN NegInf ELSE PosInf)
        ELSE IF IsZero(a) THEN F32Zero
        ELSE LET ma == AbsInt(a[1])
                 mb == AbsInt(b[1])
                 d  == DivLoop(ma \div mb, ma % mb, mb, a[2] - b[2])
             IN  Signed(s, RoundNE(d[1], d[2], d[3]))

(***************************************************************************)
(* f32: multiplication.  The 48-bit product of two significands is formed  *)
(* from 12-bit halves as hi * 2^24 + lo, then cut to 26 bits and a sticky  *)
(* bit.                                                                    *)
(***************************************************************************)
MulRound(hi, lo, e) ==
    IF hi = 0 THEN RoundNE(lo, e, 0)
    ELSE LET h == BitLen(hi)
         IN  IF h = 1 THEN RoundNE(hi * Pow2(25) + 2 * lo, e - 1, 0)
             ELSE RoundNE(hi * Pow2(26 - h) + lo \div Pow2(h - 2),
                          e + h - 2,
                          IF lo % Pow2(h - 2) = 0 THEN 0 ELSE 1)

F32Mul(a, b) ==
    LET s == F32Sign(a) * F32Sign(b)
    IN  IF IsNaN(a) \/ IsNaN(b) THEN NaN
        ELSE IF IsInf(a) \/ IsInf(b)
             THEN (IF s = 0 THEN NaN ELSE IF s < 0 THEN NegInf ELSE PosInf)
        ELSE IF s = 0 THEN F32Zero
        ELSE LET ma  == AbsInt(a[1])
                 mb  == AbsInt(b[1])
                 ah  == ma \div 4096
                 al  == ma % 4096
                 bh  == mb \div 4096
                 bl  == mb % 4096
                 mid == ah * bl + al * bh
                 los == al * bl + (mid % 4096) * 4096
                 lo  == los % Pow2(24)
                 hi  == ah * bh + mid \div 4096 + los \div Pow2(24)
             IN  Signed(s, MulRound(hi, lo, a[2] + b[2]))

(***************************************************************************)
(* f32: addition and comparison.  Both operands are brought to a common    *)
(* exponent 29 bits below the larger one's leading bit; the bits the       *)
(* smaller operand loses there are jammed into the lowest bit.             *)
(***************************************************************************)
Aligned(a, E) ==
    LET s  == a[2] - E
        ma == AbsInt(a[1])
    IN  IF s >= 0 THEN 2 * a[1] * Pow2(s)
        ELSE IF -s >= MantBits THEN F32Sign(a)
        ELSE F32Sign(a) * (2 * (ma \div Pow2(-s))
                           + (IF ma % Pow2(-s) = 0 THEN 0 ELSE 1))

\* The exact sign, and the jammed sum, of a + b for finite a and b; the sum
\* stands for AddJ(a, b)[1] * 2^AddJ(a, b)[2].
AddJ(a, b) ==
    IF IsZero(a) THEN <<b[1], b[2]>>
    ELSE IF IsZero(b) THEN <<a[1], a[2]>>
    ELSE LET T == IF Top(a) >= Top(b) THEN Top(a) ELSE Top(b)
             E == T - 28
         IN  <<Aligned(a, E) + Aligned(b, E), E - 1>>

F32Add(a, b) ==
    IF IsNaN(a) \/ IsNaN(b) THEN NaN
    ELSE IF IsInf(a) THEN (IF IsInf(b) /\ a # b THEN NaN ELSE a)
    ELSE IF IsInf(b) THEN b
    ELSE LET j == AddJ(a, b)
         IN  Signed(j[1], RoundNE(AbsInt(j[1]), j[2], 0))

F32Sub(a, b) == F32Add(a, F32Neg(b))

\* a > b; false when either is NaN.
F32Gt(a, b) ==
    IF IsNaN(a) \/ IsNaN(b) THEN FALSE
    ELSE IF a = b THEN FALSE
    ELSE IF a = PosInf \/ b = NegInf THEN TRUE
    ELSE IF a = NegInf \/ b = PosInf THEN FALSE
    ELSE AddJ(a, F32Neg(b))[1] > 0

F32Le(a, b) == ~IsNaN(a) /\ ~IsNaN(b) /\ ~F32Gt(a, b)

\* f32::max: the larger operand; the other operand when one is NaN.
F32Max(a, b) == IF IsNaN(a) THEN b
                ELSE IF IsNaN(b) THEN a
                ELSE IF F32Gt(b, a) THEN b ELSE a

\* `x as usize`: truncation toward zero; NaN and negative values give 0.
\* (+Inf saturates to usize::MAX in the code; no model value reaches it.)
F32ToUsize(a) ==
    IF IsNaN(a) \/ a[1] <= 0 THEN 0
    ELSE IF a[2] >= 0 THEN a[1] * Pow2(a[2])
    ELSE IF -a[2] >= MantBits THEN 0
    ELSE a[1] \div Pow2(-a[2])

(***************************************************************************)
(* The input file, as the decoding backend presents it.                    *)
(*   shape   "missing"  File::open fails                                   *)
(*           "unprobed" no container format is recognized                  *)
(*           "notrack"  the container has no default track                 *)
(*           "nocodec"  no decoder can be made for the track               *)
(*           "audio"    a decodable track                                  *)
(*   rate    codec_params.sample_rate: <<>> is None, <<r>> is Some(r)      *)
(*   stream  the packets of the track, in stream order; a packet is either *)
(*           corrupt (decode returns an error) or decodes to a buffer      *)
(*           [enc, chans]: its sample encoding and its channel planes      *)
(*   failAt  0, or the position of the packet at which next_packet fails   *)
(*           with a read error; past the last packet next_packet fails     *)
(*           with the end-of-stream error                                  *)
(* Raw samples are integers for the integer encodings, f32 pairs for F32   *)
(* and <<m, e>> pairs with a wider m for F64.                              *)
(***************************************************************************)
Encodings == {"F32", "F64", "U8", "U16", "U24", "U32", "S8", "S16", "S24", "S32"}

\* `x as f32` for an f64 x = m * 2^e.
F64ToF32(x) == IF x[2] = InfExp THEN x
               ELSE Signed(x[1], RoundNE(AbsInt(x[1]), x[2], 0))

F32Const(m, e) == Canon(m, e)

\* The arms of load_audio's match: one raw sample of a buffer to f32.
ConvertSample(enc, x) ==
    CASE enc = "F32" -> x
      [] enc = "F64" -> F64ToF32(x)
      [] enc = "U8"  -> F32Sub(F32Div(F32FromInt(x[1]), F32Const(128, 0)), F32One)
      [] enc = "U16" -> F32Sub(F32Div(F32FromInt(x[1]), F32Const(32768, 0)), F32One)
      [] enc = "U24" -> F32Sub(F32Div(F32FromInt(x[1]), F32Const(8388608, 0)), F32One)
      [] enc = "U32" -> F32Sub(F32Div(F32FromInt(x[1]), F32Const(1, 31)), F32One)
      [] enc = "S8"  -> F32Div(F32FromInt(x[1]), F32Const(128, 0))
      [] enc = "S16" -> F32Div(F32FromInt(x[1]), F32Const(32768, 0))
      [] enc = "S24" -> F32Div(F32FromInt(x[1]), F32Const(8388608, 0))
      [] enc = "S32" -> F32Div(F32FromInt(x[1]), F32Const(1, 31))

\* The encodings load_audio_for_whisper's match has an arm for; every other
\* buffer falls to the `_` arm, which skips the packet.
WhisperEncodings == {"F32", "U8", "U16", "U32", "S8", "S16", "S32"}

WhisperConvertSample(enc, x) ==
    CASE enc = "F32" -> x
      [] enc = "U8"  -> F32Sub(F32Div(F32FromInt(x[1]), F32Const(128, 0)), F32One)
      [] enc = "U16" -> F32Sub(F32Div(F32FromInt(x[1]), F32Const(32768, 0)), F32One)
      [] enc = "U32" -> F32Sub(F32Div(F32FromInt(x[1]), F32Const(1, 31)), F32One)
      [] enc = "S8"  -> F32Div(F32FromInt(x[1]), F32Const(128, 0))
      [] enc = "S16" -> F32Div(F32FromInt(x[1]), F32Const(32768, 0))
      [] enc = "S32" -> F32Div(F32FromInt(x[1]), F32Const(1, 31))

\* buf.chan(0)
Chan0(buf) == buf.chans[1]

MapSeq(Op(_), sq) == [i \in 1..Len(sq) |-> Op(sq[i])]

\* What one iteration of load_audio's loop appends for a decoded buffer.
ConvertBuffer(buf) ==
    LET conv(x) == ConvertSample(buf.enc, x) IN MapSeq(conv, Chan0(buf))

\* The same for load_audio_for_whisper; <<>> for a skipped packet.
WhisperConvertBuffer(buf) ==
    IF buf.enc \in WhisperEncodings
    THEN LET conv(x) == WhisperConvertSample(buf.enc, x) IN MapSeq(conv, Chan0(buf))
    ELSE <<>>

\* format.next_packet() with pos - 1 packets already read.
NextPacket(f, pos) ==
    IF f.failAt = pos THEN [ok |-> FALSE, err |-> "io", packet |-> <<>>]
    ELSE IF pos > Len(f.stream) THEN [ok |-> FALSE, err |-> "eof", packet |-> <<>>]
    ELSE [ok |-> TRUE, err |-> "", packet |-> <<f.stream[pos]>>]

(***************************************************************************)
(* Bounds of the model, and the inputs drawn within them.                  *)
(***************************************************************************)
MaxPackets == 2    \* packets in a stream of mixed encodings
MaxLen     == 16   \* samples in a ramp or silent buffer
MaxWindow  == 8    \* the window size given on the command line

TargetRate == 16000

\* An integer raw sample x is the pair <<x, 0>>.
Raw(x) == <<x, 0>>

\* One decoded buffer per encoding: two channels of two frames, channel 0
\* holding the ends of the encoding's range (for U32 and S32, of the part of
\* it below 2^31).
RawPlanes(enc) ==
    CASE enc = "F32" -> << <<F32Const(1, -1), F32Const(-1, -2)>>, <<F32Const(1, -3), F32Zero>> >>
      [] enc = "F64" -> << << <<16777217, -24>>, <<-3, -2>> >>, << <<1, -3>>, <<0, 0>> >> >>
      [] enc = "U8"  -> << <<Raw(0), Raw(255)>>, <<Raw(128), Raw(128)>> >>
      [] enc = "U16" -> << <<Raw(0), Raw(65535)>>, <<Raw(32768), Raw(32768)>> >>
      [] enc = "U24" -> << <<Raw(0), Raw(16777215)>>, <<Raw(8388608), Raw(8388608)>> >>
      [] enc = "U32" -> << <<Raw(1), Raw(2147483647)>>, <<Raw(1073741824), Raw(1073741824)>> >>
      [] enc = "S8"  -> << <<Raw(-128), Raw(127)>>, <<Raw(0), Raw(0)>> >>
      [] enc = "S16" -> << <<Raw(-32768), Raw(32767)>>, <<Raw(0), Raw(0)>> >>
      [] enc = "S24" -> << <<Raw(-8388608), Raw(8388607)>>, <<Raw(0), Raw(0)>> >>
      [] enc = "S32" -> << <<Raw(-2147483647), Raw(16777217)>>, <<Raw(0), Raw(0)>> >>

Buffer(enc, chans) == [kind |-> "buffer", enc |-> enc, chans |-> chans]
Corrupt == [kind |-> "corrupt", enc |-> "", chans |-> <<>>]

Packets == {Buffer(enc, RawPlanes(enc)) : enc \in Encodings} \cup {Corrupt}

Streams == UNION {[1..n -> Packets] : n \in 0..MaxPackets}

AudioFile(rate, stream, failAt) ==
    [shape |-> "audio", rate |-> rate, stream |-> stream, failAt |-> failAt]

\* Files that are no decodable audio.
BrokenFiles ==
    {[shape |-> sh, rate |-> <<8000>>, stream |-> <<>>, failAt |-> 0] :
        sh \in {"missing", "unprobed", "notrack", "nocodec"}}

\* Files of every mix of encodings, read failures included.
MixedFiles ==
    {AudioFile(r, st[1], st[2]) :
        r \in {<<>>, <<8000>>},
        st \in UNION {{<<x, k>> : k \in 0..Len(x)} : x \in Streams}}

Ramp(n)   == [i \in 1..n |-> Canon(i - 1, -4)]
Silent(n) == [i \in 1..n |-> F32Zero]

\* Sample values of a 32-bit float file: in range, out of range, not finite.
SignalValues == {F32Const(-2, 0), F32Const(-1, -1), F32Const(3, -2), F32One,
                 F32Const(3, -1), F32Const(3, 0), PosInf, NaN}

SignalBuffers == {Ramp(n) : n \in 0..MaxLen}
                 \cup UNION {[1..n -> SignalValues] : n \in 1..2}

SignalRates == {8000, 14000, 16000, 44100, 48000}

\* One-channel 32-bit float files: any f32 sequence is a decoded buffer.
SignalFiles ==
    {AudioFile(<<r>>, <<Buffer("F32", <<b>>)>>, 0) :
        r \in SignalRates, b \in SignalBuffers}

Files == BrokenFiles \cup MixedFiles \cup SignalFiles

(***************************************************************************)
(* The rate normalizer of load_audio_for_whisper.                          *)
(***************************************************************************)
RECURSIVE FoldMaxAbs(_, _, _)
FoldMaxAbs(samples, i, a) ==
    IF i > Len(samples) THEN a
    ELSE FoldMaxAbs(samples, i + 1, F32Max(a, F32Abs(samples[i])))

\* samples.iter().fold(0.0f32, |a, &b| a.max(b.abs()))
MaxAbs(samples) == FoldMaxAbs(samples, 1, F32Zero)

\* Lines 84-90: divide by the peak when it exceeds 1.0.
PeakNormalize(samples) ==
    LET max_abs == MaxAbs(samples)
    IN  IF F32Gt(max_abs, F32One)
        THEN [i \in 1..Len(samples) |-> F32Div(samples[i], max_abs)]
        ELSE samples

\* 16000.0 / sample_rate as f32
Ratio(sample_rate) == F32Div(F32FromInt(TargetRate), F32FromInt(sample_rate))

\* (samples.len() as f32 * ratio) as usize
NewLen(len, ratio) == F32ToUsize(F32Mul(F32FromInt(len), ratio))

\* (i as f32 / ratio) as usize
SrcIdx(i, ratio) == F32ToUsize(F32Div(F32FromInt(i), ratio))

\* The loop of lines 99-104: for i in 0..new_len, in order, push
\* samples[src_idx] when src_idx is in range.
ResampleLoop(samples, ratio, new_len) ==
    LET src_idx == [i \in 1..new_len |-> SrcIdx(i - 1, ratio)]
        InRange(k) == k < Len(samples)
        pushed == SelectSeq(src_idx, InRange)
    IN  [n \in 1..Len(pushed) |-> samples[pushed[n] + 1]]

\* A misplaced assignment: `samples = resampled` after the if block.
ResampleAssignOutside(samples, sample_rate) ==
    IF sample_rate # TargetRate
    THEN ResampleLoop(samples, Ratio(sample_rate),
                      NewLen(Len(samples), Ratio(sample_rate)))
    ELSE <<>>

\* Lines 93-107: the samples after the resampling step.
Resample(samples, sample_rate) ==
    IF sample_rate # TargetRate
    THEN ResampleLoop(samples, Ratio(sample_rate),
                      NewLen(Len(samples), Ratio(sample_rate)))
    ELSE samples

(***************************************************************************)
(* State.  The inputs are the file, the window size of the command line   *)
(* and whether the build checks integer overflow (debug builds do, release *)
(* builds wrap).  Each function has a position in its code (pc), its       *)
(* locals and its result: tag is "none" while it runs, then "ok", "err"    *)
(* (an error value returned to the caller) or "panic" (the process is      *)
(* aborted).  Spec runs the two loaders on the same file, load_audio and   *)
(* then load_audio_for_whisper, each as a call of its own (main reaches    *)
(* the second only after the first and the analyzer have returned Ok);     *)
(* SpecAnalyze runs load_audio and then, as main does,                     *)
(* compute_spectrogram on its result; SpecVisualize goes on from there to  *)
(* Visualizer::run, for a transcription that transcribe_audio is taken to  *)
(* have returned.                                                          *)
(***************************************************************************)
VARIABLES file, window_size, overflow_checks,
          la_pc, la_pos, la_samples, la_rate, la_result,
          lw_pc, lw_pos, lw_samples, lw_rate, lw_result,
          cs_pc, hop_size, num_frames, frame_idx, frames, magnitudes,
          time_points, cs_result,
          transcription, vr_pc, raw_mode, screen, vr_result

la_vars == <<la_pc, la_pos, la_samples, la_rate, la_result>>
lw_vars == <<lw_pc, lw_pos, lw_samples, lw_rate, lw_result>>
cs_vars == <<cs_pc, hop_size, num_frames, frame_idx, frames, magnitudes,
             time_points, cs_result>>
input_vars == <<file, window_size, overflow_checks>>
vr_vars == <<transcription, vr_pc, raw_mode, screen, vr_result>>
vars == <<input_vars, la_vars, lw_vars, cs_vars, vr_vars>>

NoResult == [tag |-> "none", what |-> "", samples |-> <<>>, sample_rate |-> 0]
Ok(samples, rate) == [tag |-> "ok", what |-> "", samples |-> samples, sample_rate |-> rate]
Err(what)   == [tag |-> "err", what |-> what, samples |-> <<>>, sample_rate |-> 0]
Panic(what) == [tag |-> "panic", what |-> what, samples |-> <<>>, sample_rate |-> 0]

NoSpectrogram ==
    [tag |-> "none", what |-> "", time_points |-> <<>>, frequencies |-> <<>>,
     magnitudes |-> <<>>]

\* Every function at its entry; lw and cs say whether the loader for the
\* recognition engine and the analyzer are part of the run.
Start(lw, cs) ==
    /\ la_pc = "open" /\ la_pos = 1 /\ la_samples = <<>> /\ la_rate = 0
    /\ la_result = NoResult
    /\ lw_pc = lw /\ lw_pos = 1 /\ lw_samples = <<>> /\ lw_rate = 0
    /\ lw_result = NoResult
    /\ cs_pc = cs /\ hop_size = 0 /\ num_frames = 0 /\ frame_idx = 0
    /\ frames = <<>> /\ magnitudes = <<>> /\ time_points = <<>>
    /\ cs_result = NoSpectrogram

\* What the terminal shows: the shell's lines, nothing, or the three panels
\* drawn from a transcription, a waveform and a spectrogram of these sizes.
Screen(kind, segments, samples, columns) ==
    [kind |-> kind, segments |-> segments, samples |-> samples,
     columns |-> columns]

\* The terminal as the shell leaves it (cooked mode) and Visualizer::run at
\* its entry (pc = "wait") or not part of the run (pc = "idle").
VrStart(pc, segs) ==
    /\ transcription = segs
    /\ vr_pc = pc
    /\ raw_mode = FALSE
    /\ screen = Screen("shell", 0, 0, 0)
    /\ vr_result = [tag |-> "none", what |-> ""]

Init ==
    /\ file \in Files
    /\ window_size = 0
    /\ overflow_checks = FALSE
    /\ Start("wait", "idle")
    /\ VrStart("idle", <<>>)

(***************************************************************************)
(* audio::load_audio                                                       *)
(***************************************************************************)
LaFinish(result) ==
    /\ la_result' = result
    /\ la_pc' = "done"
    /\ UNCHANGED <<la_pos, la_samples, la_rate>>

\* Lines 24-38: open, probe, pick the track, make the decoder, read the rate.
LaOpen ==
    /\ la_pc = "open"
    /\ IF file.shape = "missing" THEN LaFinish(Err("io"))
       ELSE IF file.shape = "unprobed" THEN LaFinish(Err("unsupported"))
       ELSE IF file.shape = "notrack" THEN LaFinish(Panic("unwrap on None: default_track"))
       ELSE IF file.shape = "nocodec" THEN LaFinish(Err("unsupported"))
       ELSE IF file.rate = <<>> THEN LaFinish(Panic("unwrap on None: sample_rate"))
       ELSE /\ la_pc' = "loop"
            /\ la_rate' = file.rate[1]
            /\ UNCHANGED <<la_pos, la_samples, la_result>>
    /\ UNCHANGED <<input_vars, vr_vars, lw_vars, cs_vars>>

\* Lines 40-80: one turn of `while let Ok(packet) = format.next_packet()`.
LaPacket ==
    /\ la_pc = "loop"
    /\ LET np == NextPacket(file, la_pos)
       IN  IF ~np.ok
           THEN /\ la_pc' = "return"
                /\ UNCHANGED <<la_pos, la_samples, la_rate, la_result>>
           ELSE IF np.packet[1].kind = "corrupt"
           THEN LaFinish(Err("decode"))
           ELSE /\ la_samples' = la_samples \o ConvertBuffer(np.packet[1])
                /\ la_pos' = la_pos + 1
                /\ UNCHANGED <<la_pc, la_rate, la_result>>
    /\ UNCHANGED <<input_vars, vr_vars, lw_vars, cs_vars>>

\* Lines 82-85.
LaReturn ==
    /\ la_pc = "return"
    /\ LaFinish(Ok(la_samples, la_rate))
    /\ UNCHANGED <<input_vars, vr_vars, lw_vars, cs_vars>>

(***************************************************************************)
(* speech::load_audio_for_whisper                                          *)
(***************************************************************************)
LwFinish(result) ==
    /\ lw_result' = result
    /\ lw_pc' = "done"
    /\ UNCHANGED <<lw_pos, lw_samples, lw_rate>>

\* Lines 20-39; the sample rate defaults to 16000 when the track has none.
LwOpen ==
    /\ la_pc = "done"
    /\ lw_pc = "wait"
    /\ IF file.shape = "missing" THEN LwFinish(Err("io"))
       ELSE IF file.shape = "unprobed" THEN LwFinish(Err("unsupported"))
       ELSE IF file.shape = "notrack" THEN LwFinish(Panic("unwrap on None: default_track"))
       ELSE IF file.shape = "nocodec" THEN LwFinish(Err("unsupported"))
       ELSE /\ lw_pc' = "loop"
            /\ lw_rate' = IF file.rate = <<>> THEN 16000 ELSE file.rate[1]
            /\ UNCHANGED <<lw_pos, lw_samples, lw_result>>
    /\ UNCHANGED <<input_vars, vr_vars, la_vars, cs_vars>>

\* Lines 42-71: one turn of the packet loop.
LwPacket ==
    /\ lw_pc = "loop"
    /\ LET np == NextPacket(file, lw_pos)
       IN  IF ~np.ok
           THEN /\ lw_pc' = "normalize"
                /\ UNCHANGED <<lw_pos, lw_samples, lw_rate, lw_result>>
           ELSE IF np.packet[1].kind = "corrupt"
           THEN LwFinish(Err("decode"))
           ELSE /\ lw_samples' = lw_samples \o WhisperConvertBuffer(np.packet[1])
                /\ lw_pos' = lw_pos + 1
                /\ UNCHANGED <<lw_pc, lw_rate, lw_result>>
    /\ UNCHANGED <<input_vars, vr_vars, la_vars, cs_vars>>

\* Lines 84-90.
LwNormalize ==
    /\ lw_pc = "normalize"
    /\ lw_samples' = PeakNormalize(lw_samples)
    /\ lw_pc' = "resample"
    /\ UNCHANGED <<input_vars, vr_vars, la_vars, cs_vars, lw_pos, lw_rate, lw_result>>

\* Lines 93-107.
LwResample ==
    /\ lw_pc = "resample"
    /\ lw_samples' = Resample(lw_samples, lw_rate)
    /\ lw_pc' = "return"
    /\ UNCHANGED <<input_vars, vr_vars, la_vars, cs_vars, lw_pos, lw_rate, lw_result>>

\* Line 109.
LwReturn ==
    /\ lw_pc = "return"
    /\ LwFinish(Ok(lw_samples, TargetRate))
    /\ UNCHANGED <<input_vars, vr_vars, la_vars, cs_vars>>

Next == \/ LaOpen \/ LaPacket \/ LaReturn
        \/ LwOpen \/ LwPacket \/ LwNormalize \/ LwResample \/ LwReturn

Spec == Init /\ [][Next]_vars

(***************************************************************************)
(* audio::compute_spectrogram                                              *)
(*                                                                         *)
(* A usize that has wrapped around is kept as four 16-bit limbs, most      *)
(* significant first (a 64-bit target).  The window coefficients and the   *)
(* transform are not computed: the log-magnitude of bin j of the frame     *)
(* that starts at sample `start` is the token <<start, j>>.  The planner   *)
(* (line 90) is taken to plan a transform of any size.  frames records,    *)
(* frame by frame, the range of samples that line 102 has sliced.          *)
(***************************************************************************)
\* len - window_size (len < window_size) in a build without overflow checks.
WrappingSub(len, w) == <<65535, 65535, 65535, 65536 - (w - len)>>

\* x / d for limbs x and 0 < d < 2^15.
DivLimbs(x, d) ==
    LET r1 == x[1] % d
        v2 == r1 * 65536 + x[2]
        r2 == v2 % d
        v3 == r2 * 65536 + x[3]
        r3 == v3 % d
        v4 == r3 * 65536 + x[4]
    IN  <<x[1] \div d, v2 \div d, v3 \div d, v4 \div d>>

RECURSIVE LimbsGt(_, _)
LimbsGt(x, y) == IF x = <<>> THEN FALSE
                 ELSE IF x[1] # y[1] THEN x[1] > y[1]
                 ELSE LimbsGt(Tail(x), Tail(y))

\* isize::MAX / size_of::<Vec<f32>>(): the largest capacity that
\* Vec::<Vec<f32>>::with_capacity accepts before it panics.
MaxCapacity == <<1365, 21845, 21845, 21845>>

AudioData == la_result

\* The slice audio_data.samples[start..start + window_size] is in range.
SliceInRange(start, len) == start + window_size <= len

\* Frames laid end to end, without overlap.
FrameStartByWindow(idx) == idx * window_size

\* Line 101: frame_idx * hop_size
FrameStart(idx) == idx * hop_size

\* Line 102: the samples a frame is built from, as the half-open range
\* [lo, hi) of indices into audio_data.samples.
FrameSlice(start) == [lo |-> start, hi |-> start + window_size]

\* A forgotten slice: the magnitude of every output of the transform.
FrameMagnitudeUnsliced(start) == [j \in 1..window_size |-> <<start, j - 1>>]

\* Lines 110-113: frame[..window_size/2], each value to its log-magnitude.
FrameMagnitude(start) == [j \in 1..(window_size \div 2) |-> <<start, j - 1>>]

\* A frame's time taken in hops, not in samples.
FrameTimeInHops(start, sample_rate) ==
    F32Div(F32FromInt(start \div hop_size), F32FromInt(sample_rate))

\* Line 116: start as f32 / sample_rate as f32
FrameTime(start, sample_rate) ==
    F32Div(F32FromInt(start), F32FromInt(sample_rate))

\* Line 120: i as f32 * sample_rate as f32 / window_size as f32
BinFrequency(i, sample_rate) ==
    F32Div(F32Mul(F32FromInt(i), F32FromInt(sample_rate)), F32FromInt(window_size))

CsResult(tag, what, t, f, m) ==
    [tag |-> tag, what |-> what, time_points |-> t, frequencies |-> f,
     magnitudes |-> m]

CsPanic(what) ==
    /\ cs_result' = CsResult("panic", what, <<>>, <<>>, <<>>)
    /\ cs_pc' = "done"
    /\ UNCHANGED <<hop_size, num_frames, frame_idx, frames, magnitudes,
                   time_points>>

\* Lines 89-98: the hop, the number of frames, the two vectors, the window.
CsPlan ==
    /\ la_pc = "done" /\ la_result.tag = "ok"
    /\ cs_pc = "wait"
    /\ LET len == Len(AudioData.samples)
           hop == window_size \div 2
       IN  IF len < window_size /\ overflow_checks
           THEN CsPanic("attempt to subtract with overflow")
           ELSE IF hop = 0
           THEN CsPanic("attempt to divide by zero")
           ELSE IF len < window_size
           THEN IF LimbsGt(DivLimbs(WrappingSub(len, window_size), hop), MaxCapacity)
                THEN CsPanic("capacity overflow")
                ELSE CsPanic("allocation failure or slice index out of range")
           ELSE /\ hop_size' = hop
                /\ num_frames' = (len - window_size) \div hop
                /\ frame_idx' = 0
                /\ frames' = <<>>
                /\ magnitudes' = <<>>
                /\ time_points' = <<>>
                /\ cs_pc' = "loop"
                /\ UNCHANGED cs_result
    /\ UNCHANGED <<input_vars, vr_vars, la_vars, lw_vars>>

\* Lines 100-117: one frame.
CsFrame ==
    /\ cs_pc = "loop"
    /\ frame_idx < num_frames
    /\ LET start == FrameStart(frame_idx)
       IN  IF ~SliceInRange(start, Len(AudioData.samples))
           THEN CsPanic("slice index out of range")
           ELSE /\ frames' = Append(frames, FrameSlice(start))
                /\ magnitudes' = Append(magnitudes, FrameMagnitude(start))
                /\ time_points' = Append(time_points,
                                         FrameTime(start, AudioData.sample_rate))
                /\ frame_idx' = frame_idx + 1
                /\ UNCHANGED <<cs_pc, hop_size, num_frames, cs_result>>
    /\ UNCHANGED <<input_vars, vr_vars, la_vars, lw_vars>>

\* Lines 119-127.
CsReturn ==
    /\ cs_pc = "loop"
    /\ frame_idx >= num_frames
    /\ cs_result' = CsResult("ok", "", time_points,
                             [j \in 1..(window_size \div 2) |->
                                 BinFrequency(j - 1, AudioData.sample_rate)],
                             magnitudes)
    /\ cs_pc' = "done"
    /\ UNCHANGED <<hop_size, num_frames, frame_idx, frames, magnitudes,
                   time_points>>
    /\ UNCHANGED <<input_vars, vr_vars, la_vars, lw_vars>>

AnalyzerRates == {1, 8000, 16000, 44100}

\* One-channel float files of every length up to MaxLen, silent or not.
AnalyzerFiles ==
    {AudioFile(<<r>>, <<Buffer("F32", <<b>>)>>, 0) :
        r \in AnalyzerRates,
        b \in {Ramp(n) : n \in 0..MaxLen} \cup {Silent(n) : n \in 0..MaxLen}}

InitAnalyze ==
    /\ file \in AnalyzerFiles
    /\ window_size \in 0..MaxWindow
    /\ overflow_checks \in BOOLEAN
    /\ Start("idle", "wait")
    /\ VrStart("idle", <<>>)

NextAnalyze == \/ LaOpen \/ LaPacket \/ LaReturn
               \/ CsPlan \/ CsFrame \/ CsReturn

SpecAnalyze == InitAnalyze /\ [][NextAnalyze]_vars

(***************************************************************************)
(* visualization::Visualizer::run                                          *)
(*                                                                         *)
(* The terminal is its mode (raw or cooked) and what it shows.  Every call *)
(* that run ends with `?` succeeds or fails as the terminal decides; a     *)
(* call that fails leaves the terminal as it was.  The value that          *)
(* Terminal::new returns restores nothing when it is dropped.              *)
(***************************************************************************)
VrResult(tag, what) == [tag |-> tag, what |-> what]

VrFinish(result) ==
    /\ vr_result' = result
    /\ vr_pc' = "done"

\* main, lines 38-39, then line 36 of run: enable_raw_mode()?
VrEnableRawMode ==
    /\ cs_pc = "done" /\ cs_result.tag = "ok"
    /\ vr_pc = "wait"
    /\ \E ok \in BOOLEAN :
          IF ok THEN /\ raw_mode' = TRUE
                     /\ vr_pc' = "new"
                     /\ UNCHANGED vr_result
                ELSE /\ VrFinish(VrResult("err", "enable_raw_mode"))
                     /\ UNCHANGED raw_mode
    /\ UNCHANGED <<input_vars, la_vars, lw_vars, cs_vars, transcription, screen>>

\* Line 37: Terminal::new(CrosstermBackend::new(stdout()))?
VrNewTerminal ==
    /\ vr_pc = "new"
    /\ \E ok \in BOOLEAN :
          IF ok THEN vr_pc' = "clear" /\ UNCHANGED vr_result
                ELSE VrFinish(VrResult("err", "Terminal::new"))
    /\ UNCHANGED <<input_vars, la_vars, lw_vars, cs_vars, transcription,
                   raw_mode, screen>>

\* Line 38: terminal.clear()?
VrClear ==
    /\ vr_pc = "clear"
    /\ \E ok \in BOOLEAN :
          IF ok THEN /\ screen' = Screen("blank", 0, 0, 0)
                     /\ vr_pc' = "draw"
                     /\ UNCHANGED vr_result
                ELSE /\ VrFinish(VrResult("err", "clear"))
                     /\ UNCHANGED screen
    /\ UNCHANGED <<input_vars, la_vars, lw_vars, cs_vars, transcription, raw_mode>>

\* Lines 40-54: terminal.draw(...)?, the three panels.
VrDraw ==
    /\ vr_pc = "draw"
    /\ \E ok \in BOOLEAN :
          IF ok THEN /\ screen' = Screen("panels", Len(transcription),
                                         Len(AudioData.samples),
                                         Len(cs_result.time_points))
                     /\ vr_pc' = "sleep"
                     /\ UNCHANGED vr_result
                ELSE /\ VrFinish(VrResult("err", "draw"))
                     /\ UNCHANGED screen
    /\ UNCHANGED <<input_vars, la_vars, lw_vars, cs_vars, transcription, raw_mode>>

\* Line 57: the five seconds the panels stay up.
VrSleep ==
    /\ vr_pc = "sleep"
    /\ vr_pc' = "disable"
    /\ UNCHANGED <<input_vars, la_vars, lw_vars, cs_vars, transcription,
                   raw_mode, screen, vr_result>>

\* Line 59: disable_raw_mode()?
VrDisableRawMode ==
    /\ vr_pc = "disable"
    /\ \E ok \in BOOLEAN :
          IF ok THEN /\ raw_mode' = FALSE
                     /\ vr_pc' = "clear_end"
                     /\ UNCHANGED vr_result
                ELSE /\ VrFinish(VrResult("err", "disable_raw_mode"))
                     /\ UNCHANGED raw_mode
    /\ UNCHANGED <<input_vars, la_vars, lw_vars, cs_vars, transcription, screen>>

\* Line 60: terminal.clear()?
VrClearEnd ==
    /\ vr_pc = "clear_end"
    /\ \E ok \in BOOLEAN :
          IF ok THEN /\ screen' = Screen("blank", 0, 0, 0)
                     /\ vr_pc' = "return"
                     /\ UNCHANGED vr_result
                ELSE /\ VrFinish(VrResult("err", "clear_end"))
                     /\ UNCHANGED screen
    /\ UNCHANGED <<input_vars, la_vars, lw_vars, cs_vars, transcription, raw_mode>>

\* Line 61.
VrReturn ==
    /\ vr_pc = "return"
    /\ VrFinish(VrResult("ok", ""))
    /\ UNCHANGED <<input_vars, la_vars, lw_vars, cs_vars, transcription,
                   raw_mode, screen>>

\* What transcribe_audio may have returned: no segment, or one.
Transcriptions ==
    {<<>>, <<[text |-> "hello", start |-> 0, end |-> 1]>>}

VisualizerWindows == {4, MaxWindow}

VisualizerFiles ==
    {AudioFile(<<r>>, <<Buffer("F32", <<Ramp(n)>>)>>, 0) :
        r \in {8000, 16000}, n \in (MaxLen - 4)..MaxLen}

InitVisualize ==
    /\ file \in VisualizerFiles
    /\ window_size \in VisualizerWindows
    /\ overflow_checks \in BOOLEAN
    /\ Start("idle", "wait")
    /\ \E segs \in Transcriptions : VrStart("wait", segs)

NextVisualize == \/ LaOpen \/ LaPacket \/ LaReturn
                 \/ CsPlan \/ CsFrame \/ CsReturn
                 \/ VrEnableRawMode \/ VrNewTerminal \/ VrClear \/ VrDraw
                 \/ VrSleep \/ VrDisableRawMode \/ VrClearEnd \/ VrReturn

SpecVisualize == InitVisualize /\ [][NextVisualize]_vars

(***************************************************************************)
(* Properties of the spectral analyzer, under SpecAnalyze.                 *)
(***************************************************************************)
CsReturned == cs_pc = "done"
CsOk == cs_result.tag = "ok"

\* C1: in every spectrogram that compute_spectrogram returns, magnitudes has
\* as many frames as time_points has entries, every frame is as long as
\* frequencies, and frequencies has window_size / 2 entries.
SpectrogramShape ==
    CsOk =>
        /\ Len(cs_result.magnitudes) = Len(cs_result.time_points)
        /\ \A k \in 1..Len(cs_result.magnitudes) :
              Len(cs_result.magnitudes[k]) = Len(cs_result.frequencies)
        /\ Len(cs_result.frequencies) = window_size \div 2

SpectrogramShapeWitness ==
    /\ CsOk
    /\ window_size >= 4
    /\ Len(cs_result.magnitudes) >= 2

\* C2: a buffer shorter than the window gives a spectrogram of zero frames
\* or the error InsufficientSamples; the call neither crashes nor computes a
\* wrapped-around number of frames.
ShortBufferIsHandled ==
    (CsReturned /\ Len(AudioData.samples) < window_size) =>
        \/ CsOk /\ cs_result.magnitudes = <<>> /\ cs_result.time_points = <<>>
        \/ cs_result.tag = "err" /\ cs_result.what = "InsufficientSamples"

RECURSIVE IsPowerOfTwo(_)
IsPowerOfTwo(n) == IF n <= 1 THEN n = 1
                   ELSE n % 2 = 0 /\ IsPowerOfTwo(n \div 2)

\* The supported sizes: the powers of two whose hop size is not zero.
SupportedWindow(w) == w >= 2 /\ IsPowerOfTwo(w)

\* C3: with an unsupported window size compute_spectrogram computes no frame
\* and returns the error InvalidWindowSize.
InvalidWindowSizeIsRejected ==
    ~SupportedWindow(window_size) =>
        /\ cs_pc # "loop"
        /\ CsReturned => cs_result.tag = "err" /\ cs_result.what = "InvalidWindowSize"

\* The f32 nearest to p / q, for integers p >= 0 and q > 0.
NearestF32(p, q) ==
    LET d == DivLoop(p \div q, p % q, q, 0) IN RoundNE(d[1], d[2], d[3])

StrictlyIncreasing(sq) == \A i \in 1..(Len(sq) - 1) : F32Gt(sq[i + 1], sq[i])

FrameCount ==
    (Len(AudioData.samples) - window_size) \div (window_size \div 2)

\* Frame k (from 0) as the claim describes it: samples [k*H, k*H + W).
ExpectedSlice(k) ==
    [lo |-> k * (window_size \div 2),
     hi |-> k * (window_size \div 2) + window_size]

\* C11: for a buffer of at least W samples and a hop H = W / 2 > 0,
\* compute_spectrogram produces exactly floor((len - W) / H) frames, in
\* increasing frame index 0, 1, ..., and frame k is built from exactly the
\* samples [k*H, k*H + W), a range inside the buffer; the call does not
\* panic.
FramesCoverBuffer ==
    (/\ cs_pc \in {"loop", "done"}
     /\ window_size \div 2 > 0
     /\ Len(AudioData.samples) >= window_size) =>
        /\ cs_result.tag # "panic"
        /\ Len(frames) <= FrameCount
        /\ Len(magnitudes) = Len(frames)
        /\ Len(time_points) = Len(frames)
        /\ CsOk => /\ Len(frames) = FrameCount
                   /\ cs_result.magnitudes = magnitudes
                   /\ cs_result.time_points = time_points
        /\ \A k \in 1..Len(frames) :
              /\ frames[k] = ExpectedSlice(k - 1)
              /\ frames[k].lo >= 0
              /\ frames[k].hi <= Len(AudioData.samples)
              /\ \A j \in 1..Len(magnitudes[k]) :
                    magnitudes[k][j] = <<frames[k].lo, j - 1>>
              /\ time_points[k]
                    = FrameTime(frames[k].lo, AudioData.sample_rate)

\* An odd window (H = 2, W = 5) on a buffer whose last samples fill no
\* whole hop.
FramesCoverBufferWitness ==
    /\ CsOk
    /\ window_size = 5
    /\ Len(frames) >= 3
    /\ (Len(AudioData.samples) - window_size) % (window_size \div 2) # 0

(***************************************************************************)
(* Properties of the two loaders, under Spec.                              *)
(***************************************************************************)
RECURSIVE Concat(_)
Concat(seqs) == IF seqs = <<>> THEN <<>> ELSE Head(seqs) \o Concat(Tail(seqs))

IsReadable(f) ==
    /\ f.failAt = 0
    /\ \A i \in 1..Len(f.stream) : f.stream[i].kind = "buffer"

\* Every packet's first channel through the normalization table, in stream
\* order.
WholeStream(f) ==
    Concat([i \in 1..Len(f.stream) |-> ConvertBuffer(f.stream[i])])

\* C4: load_audio returns Ok only with the conversions of every packet of the
\* stream, in stream order; when reading or decoding fails at some packet it
\* returns an error.
LoadAudioAllOrNothing ==
    la_result.tag = "ok" =>
        /\ IsReadable(file)
        /\ la_result.samples = WholeStream(file)

\* C5: for a container without a decodable track both loaders return an
\* error value; neither aborts the process.
NoAudioTrackIsAnError ==
    file.shape = "notrack" =>
        /\ la_pc = "done" => la_result.tag = "err"
        /\ lw_pc = "done" => lw_result.tag = "err"

\* C6: the sequence the recognition path is about to peak-normalize and
\* resample is the sequence load_audio returns for the same file.
WhisperDecodesLikeLoadAudio ==
    (la_result.tag = "ok" /\ lw_pc = "normalize") =>
        lw_samples = la_result.samples

\* Nearest-index resampling in exact arithmetic, r = TargetRate / rate:
\* new_len = floor(len * r), source index floor(i / r).
IdealNewLen(len, rate) == (len * TargetRate) \div rate
IdealSrcIdx(i, rate) == (i * rate) \div TargetRate

NearestIndexResample(samples, rate) ==
    LET idx  == [i \in 1..IdealNewLen(Len(samples), rate) |-> IdealSrcIdx(i - 1, rate)]
        InRange(k) == k < Len(samples)
        kept == SelectSeq(idx, InRange)
    IN  [n \in 1..Len(kept) |-> samples[kept[n] + 1]]

\* C7: the resampling step outputs samples[floor(i / r)] for i = 0, 1, ...
\* below new_len, dropping the source indices past the end; the output is no
\* longer than new_len; an 8000 Hz buffer of N samples becomes 2N samples.
ResampleIsNearestIndex ==
    [][(lw_pc = "resample" /\ lw_rate # TargetRate) =>
          /\ lw_samples' = NearestIndexResample(lw_samples, lw_rate)
          /\ Len(lw_samples') <= IdealNewLen(Len(lw_samples), lw_rate)
          /\ lw_rate = 8000 => Len(lw_samples') = 2 * Len(lw_samples)]_vars

\* C8: every sample handed to the recognition engine has absolute value at
\* most 1.0.
UnitPeak ==
    lw_result.tag = "ok" =>
        \A i \in 1..Len(lw_result.samples) :
            F32Le(F32Abs(lw_result.samples[i]), F32One)

AllFinite(samples) == \A i \in 1..Len(samples) : IsFinite(samples[i])

\* The part of C8 that holds: when every sample of the file is finite, so is
\* every sample handed on, with absolute value at most 1.0.
UnitPeakOfFiniteInput ==
    (\A p \in 1..Len(file.stream) :
        file.stream[p].kind = "buffer" => AllFinite(Chan0(file.stream[p])))
    => UnitPeak

\* And the normalization step on finite samples: division by a peak above
\* 1.0 (by 2.0: exactly a halving), no change otherwise.
PeakNormalizeStep ==
    [][(lw_pc = "normalize" /\ AllFinite(lw_samples)) =>
          LET max_abs == MaxAbs(lw_samples)
          IN  IF F32Gt(max_abs, F32One)
              THEN /\ Len(lw_samples') = Len(lw_samples)
                   /\ \A i \in 1..Len(lw_samples) :
                         /\ lw_samples'[i] = F32Div(lw_samples[i], max_abs)
                         /\ max_abs = F32Const(2, 0) =>
                               lw_samples'[i] = F32Mul(lw_samples[i], F32Const(1, -1))
              ELSE lw_samples' = lw_samples]_vars

\* C9: at the target rate the resampling step leaves the samples as they
\* are, and normalizing and resampling its output once more changes nothing.
ResampleAtTargetRateIsNoOp ==
    [][(lw_pc = "resample" /\ lw_rate = TargetRate) =>
          /\ lw_samples' = lw_samples
          /\ Resample(PeakNormalize(lw_samples'), TargetRate) = lw_samples']_vars

ResampleAtTargetRateWitness ==
    /\ lw_pc = "return"
    /\ lw_rate = TargetRate
    /\ Len(lw_samples) >= 2
    /\ lw_samples[1] # lw_samples[2]

(***************************************************************************)
(* Properties of the terminal session, under SpecVisualize.                *)
(***************************************************************************)
VrReturned == vr_pc = "done"

\* run has returned after enable_raw_mode succeeded and disable_raw_mode
\* did not itself fail: with Ok, or with the error of Terminal::new, of a
\* clear or of the draw.
VrReturnedAfterRawMode ==
    /\ VrReturned
    /\ \/ vr_result.tag = "ok"
       \/ /\ vr_result.tag = "err"
          /\ vr_result.what \in {"Terminal::new", "clear", "draw", "clear_end"}

\* C12: once raw mode has been enabled, it is disabled again before run
\* returns, whether run returns Ok or the error of creating, clearing or
\* drawing to the terminal.
RunRestoresTerminal == VrReturnedAfterRawMode => ~raw_mode

\* The part of C12 that holds: a run that reaches line 59 and disables raw
\* mode there returns, with Ok or with the error of line 60, in cooked mode.
RunRestoresTerminalPastDraw ==
    (VrReturned /\ (vr_result.tag = "ok" \/ vr_result.what = "clear_end"))
        => ~raw_mode

=============================================================================
